---- MODULE Spec2Model ----
(***************************************************************************)
(* ChargeService (custom_components/foxess_em/charge/charge_service.py).   *)
(*                                                                         *)
(* The service registers two daily time triggers at construction.  The     *)
(* pre-window trigger runs _set_target_soc, which registers the per-cycle  *)
(* listeners; the eco-end trigger runs _stop_hold.  Every callback is a    *)
(* coroutine: it runs to its next await, where the awaited collaborator    *)
(* call either returns or raises.                                          *)
(*                                                                         *)
(* Percentages are kept in tenths of a percent (PercScale), so that a      *)
(* fractional charge_to_perc() is representable.  The wall clock is the    *)
(* minute of the day; it visits the instants of ClockPoints, the only      *)
(* minutes at which a time pattern the service registers can match.        *)
(***************************************************************************)
EXTENDS Integers, Sequences, FiniteSets, TLC

\* ---------------------------------------------------------------- bounds
MaxDays == 2
MaxReports == 2
MaxTasks == 2

\* ------------------------------------------------------------- constants
PercScale == 10
MinutesPerDay == 1440
PreWindowLead == 5
SocApiScale == 100

T(h, m) == [hour |-> h, minute |-> m]

EcoStartTimes == {T(2, 0), T(2, 5), T(0, 3), T(23, 59)}
EcoEndTimes == {T(5, 0)}
OriginalSocs == {20}
Capacities == {<<10, 4>>, <<4, 4>>, <<4, 10>>}
PercTargets == {796, 800}
Overrides == {<<FALSE, FALSE>>, <<TRUE, TRUE>>}
SocValues == {79, 80}

Perc(n) == n * PercScale

BatteryStates ==
    { [needed |-> c[1], remaining |-> c[2], perc |-> p,
       boost |-> o[1], full |-> o[2]] :
         c \in Capacities, p \in PercTargets, o \in Overrides }

VARIABLES
    eco_start_time,     \* self._eco_start_time
    eco_end_time,       \* self._eco_end_time
    original_soc,       \* self._original_soc
    cancel_listeners,   \* self._cancel_listeners: handle ids
    unload_listeners,   \* self._unload_listeners: handle ids
    charge_active,      \* self._charge_active
    perc_target,        \* self._perc_target (tenths of a percent)
    handles,            \* every listener the substrate has handed out
    battery,            \* the battery controller's values
    soc,                \* last state of the battery_soc sensor
    now, day,           \* wall clock: minute of the day, day number
    queue,              \* callbacks the substrate has scheduled
    tasks,              \* coroutines suspended at an await
    cmds,               \* charger commands issued since the pre-window instant
    events,             \* clock, sensor and callback events since then
    outstanding,        \* startForceCharge issued minus stopForceCharge issued
    reports,            \* sensor reports since the pre-window instant
    idle,               \* _stop_hold returned and no _set_target_soc returned since
    done                \* the invocation that ended in the last step, if any

config == <<eco_start_time, eco_end_time, original_soc>>
service == <<cancel_listeners, unload_listeners, charge_active, perc_target>>
vars == <<eco_start_time, eco_end_time, original_soc, cancel_listeners,
          unload_listeners, charge_active, perc_target, handles, battery, soc,
          now, day, queue, tasks, cmds, events, outstanding, reports, idle, done>>

\* ------------------------------------------------------------ substrate
NoDone == [action |-> "none", outcome |-> "none", entry_active |-> FALSE,
           issued |-> <<>>]

Cmd(op, arg) == [op |-> op, arg |-> arg]

\* async_track_utc_time_change(hass, action, hour, minute, second=0)
TimeListener(action, hour, minute) ==
    [kind |-> "time", action |-> action, hour |-> hour, minute |-> minute,
     to_state |-> -1, live |-> TRUE, cancels |-> 0]

\* async_track_state_change(hass, entity, action, None, to_state)
StateListener(action, to_state) ==
    [kind |-> "state", action |-> action, hour |-> -1, minute |-> -1,
     to_state |-> to_state, live |-> TRUE, cancels |-> 0]

\* A time pattern matches an instant field by field.
MatchesTime(h, t) ==
    /\ h.kind = "time"
    /\ h.live
    /\ h.hour = t \div 60
    /\ h.minute = t % 60

\* a threshold watch in place of the equality watch
MatchesStateAtLeast(h, v) ==
    /\ h.kind = "state"
    /\ h.live
    /\ h.to_state <= v

MatchesState(h, v) ==
    /\ h.kind = "state"
    /\ h.live
    /\ h.to_state = v

\* listener(): the handle's cancel function; cancelling twice is harmless.
Cancel(h) == [h EXCEPT !.live = FALSE, !.cancels = @ + 1]

ToMinutes(t) == t.hour * 60 + t.minute

PreWindow == (ToMinutes(eco_start_time) - PreWindowLead) % MinutesPerDay

ClockPoints == {PreWindow, ToMinutes(eco_start_time), ToMinutes(eco_end_time)}

NextPoint ==
    LET later == {p \in ClockPoints : p > now}
        pick(S) == CHOOSE p \in S : \A q \in S : p <= q
    IN IF later # {} THEN pick(later) ELSE pick(ClockPoints)

Ids(n) == [i \in 1..n |-> i]

\* the callbacks of the live time listeners matching instant t, oldest first
TimeFired(t) ==
    LET idx == SelectSeq(Ids(Len(handles)), LAMBDA i : MatchesTime(handles[i], t))
    IN [k \in 1..Len(idx) |-> handles[idx[k]].action]

\* the callbacks of the live state listeners matching the new state v
StateFired(v) ==
    LET idx == SelectSeq(Ids(Len(handles)), LAMBDA i : MatchesState(handles[i], v))
    IN [k \in 1..Len(idx) |-> handles[idx[k]].action]

RemoveAt(s, i) == SubSeq(s, 1, i - 1) \o SubSeq(s, i + 1, Len(s))

Task(action, pc, entry, issued) ==
    [action |-> action, pc |-> pc, entry_active |-> entry, issued |-> issued]

Ended(t, outcome) ==
    [action |-> t.action, outcome |-> outcome, entry_active |-> t.entry_active,
     issued |-> t.issued]

\* the event log once a callback has ended: an exception that leaves a
\* callback is logged
Logged(ok) == IF ok THEN events ELSE Append(events, <<"raised", 0>>)

\* str(int(self._perc_target))
IntStr(p) == p \div PercScale

\* ----------------------------------------------------------------- Init
\* __init__ with the second trigger copied from the first, callback included
InitListenersCopied ==
    << TimeListener("_set_target_soc", eco_start_time.hour,
                    eco_start_time.minute - PreWindowLead),
       TimeListener("_set_target_soc", eco_end_time.hour,
                    eco_end_time.minute) >>

\* ChargeService.__init__
InitListeners ==
    << TimeListener("_set_target_soc", eco_start_time.hour,
                    eco_start_time.minute - PreWindowLead),
       TimeListener("_stop_hold", eco_end_time.hour, eco_end_time.minute) >>

Init ==
    /\ eco_start_time \in EcoStartTimes
    /\ eco_end_time \in EcoEndTimes
    /\ original_soc \in OriginalSocs
    /\ cancel_listeners = <<>>
    /\ charge_active = FALSE
    /\ perc_target = 0
    /\ handles = InitListeners
    /\ unload_listeners = <<1, 2>>
    /\ battery \in BatteryStates
    /\ soc \in SocValues
    /\ now = 0
    /\ day = 0
    /\ queue = <<>>
    /\ tasks = <<>>
    /\ cmds = <<>>
    /\ events = <<>>
    /\ outstanding = 0
    /\ reports = 0
    /\ idle = TRUE
    /\ done = NoDone

\* ---------------------------------------------------------- environment
\* The wall clock reaches its next instant; matching time listeners fire.
Tick ==
    LET t == NextPoint
        wrap == t <= now
    IN /\ wrap => day + 1 < MaxDays
       /\ now' = t
       /\ day' = IF wrap THEN day + 1 ELSE day
       /\ queue' = queue \o TimeFired(t)
       /\ IF t = PreWindow
            THEN /\ cmds' = <<>>
                 /\ events' = << <<"clock", t>> >>
                 /\ reports' = 0
            ELSE /\ events' = Append(events, <<"clock", t>>)
                 /\ UNCHANGED <<cmds, reports>>
       /\ done' = NoDone
       /\ UNCHANGED <<config, service, handles, battery, soc, tasks,
                      outstanding, idle>>

\* The battery_soc sensor reports state v; matching state listeners fire.
SocReport(v) ==
    /\ reports < MaxReports
    /\ reports' = reports + 1
    /\ soc' = v
    /\ queue' = queue \o StateFired(v)
    /\ events' = Append(events, <<"soc", v>>)
    /\ done' = NoDone
    /\ UNCHANGED <<config, service, handles, battery, now, day, tasks, cmds,
                   outstanding, idle>>

\* ------------------------------------------------------ _set_target_soc
\* lines 67-71: up to await self._forecast_controller.async_refresh()
BeginSetTargetSoc ==
    /\ queue # <<>>
    /\ Head(queue) = "_set_target_soc"
    /\ queue' = Tail(queue)
    /\ tasks' = Append(tasks, Task("_set_target_soc", "async_refresh",
                                   charge_active, <<>>))
    /\ events' = Append(events, <<"_set_target_soc", 0>>)
    /\ done' = NoDone
    /\ UNCHANGED <<config, service, handles, battery, soc, now, day, cmds,
                   outstanding, reports, idle>>

\* line 78 with >= for >
StartNeededOrEqual(b) == b.needed >= b.remaining

\* line 78: target_capacity > current_capacity
StartNeeded(b) == b.needed > b.remaining

\* lines 78-102: the listeners one _set_target_soc registers
NewListeners(b) ==
    (IF StartNeeded(b)
       THEN <<TimeListener("_start_force_charge", eco_start_time.hour,
                           eco_start_time.minute)>>
       ELSE <<>>)
    \o <<StateListener("_stop_and_hold_charge", IntStr(b.perc))>>

\* lines 88-89, 103-104 with the last append left out
AppendedButLast(list, first, n) == list \o [k \in 1..(n - 1) |-> first + k]

\* lines 88-89, 103-104: the ids appended to a listener list
Appended(list, first, n) == list \o [k \in 1..n |-> first + k]

\* lines 73-104: async_refresh() returned
RefreshReturns(i) ==
    /\ tasks[i].pc = "async_refresh"
    /\ \E b \in BatteryStates :
         LET new == NewListeners(b)
         IN /\ battery' = b
            /\ perc_target' = b.perc
            /\ handles' = handles \o new
            /\ cancel_listeners' =
                 Appended(cancel_listeners, Len(handles), Len(new))
            /\ unload_listeners' =
                 Appended(unload_listeners, Len(handles), Len(new))
    /\ tasks' = RemoveAt(tasks, i)
    /\ done' = Ended(tasks[i], "returned")
    /\ idle' = FALSE
    /\ UNCHANGED <<config, charge_active, soc, now, day, queue, cmds, events,
                   outstanding, reports>>

\* line 71: async_refresh() raised
RefreshRaises(i) ==
    /\ tasks[i].pc = "async_refresh"
    /\ tasks' = RemoveAt(tasks, i)
    /\ events' = Logged(FALSE)
    /\ done' = Ended(tasks[i], "raised")
    /\ UNCHANGED <<config, service, handles, battery, soc, now, day, queue,
                   cmds, outstanding, reports, idle>>

\* --------------------------------------------------- _start_force_charge
\* lines 106-112: up to await self._fox.start_force_charge()
BeginStartForceCharge ==
    /\ queue # <<>>
    /\ Head(queue) = "_start_force_charge"
    /\ queue' = Tail(queue)
    /\ charge_active' = TRUE
    /\ cmds' = Append(cmds, Cmd("startForceCharge", 0))
    /\ outstanding' = outstanding + 1
    /\ tasks' = Append(tasks, Task("_start_force_charge", "start_force_charge",
                                   charge_active, <<Cmd("startForceCharge", 0)>>))
    /\ events' = Append(events, <<"_start_force_charge", 0>>)
    /\ done' = NoDone
    /\ UNCHANGED <<config, cancel_listeners, unload_listeners, perc_target,
                   handles, battery, soc, now, day, reports, idle>>

\* line 112: start_force_charge() returned (TRUE) or raised (FALSE)
StartEnds(i, ok) ==
    /\ tasks[i].pc = "start_force_charge"
    /\ tasks' = RemoveAt(tasks, i)
    /\ events' = Logged(ok)
    /\ done' = Ended(tasks[i], IF ok THEN "returned" ELSE "raised")
    /\ UNCHANGED <<config, service, handles, battery, soc, now, day, queue,
                   cmds, outstanding, reports, idle>>

\* ------------------------------------------------- _stop_and_hold_charge
\* line 119 without the test
StopAlways == TRUE

\* line 119: if self._charge_active
StopNeeded == charge_active

\* line 121 left out: the flag keeps its value
ActiveKept == charge_active

\* line 121: self._charge_active = False
ClearedActive == FALSE

\* lines 114-125: up to the first await, stop_force_charge() when a charge
\* is active and set_min_soc(self._perc_target) otherwise
BeginStopAndHold ==
    /\ queue # <<>>
    /\ Head(queue) = "_stop_and_hold_charge"
    /\ queue' = Tail(queue)
    /\ IF StopNeeded
         THEN /\ charge_active' = ClearedActive
              /\ cmds' = Append(cmds, Cmd("stopForceCharge", 0))
              /\ outstanding' = outstanding - 1
              /\ tasks' = Append(tasks,
                     Task("_stop_and_hold_charge", "stop_force_charge",
                          charge_active, <<Cmd("stopForceCharge", 0)>>))
         ELSE /\ cmds' = Append(cmds, Cmd("setMinSoc", perc_target))
              /\ tasks' = Append(tasks,
                     Task("_stop_and_hold_charge", "set_min_soc",
                          charge_active, <<Cmd("setMinSoc", perc_target)>>))
              /\ UNCHANGED <<charge_active, outstanding>>
    /\ events' = Append(events, <<"_stop_and_hold_charge", 0>>)
    /\ done' = NoDone
    /\ UNCHANGED <<config, cancel_listeners, unload_listeners, perc_target,
                   handles, battery, soc, now, day, reports, idle>>

\* lines 122-125: stop_force_charge() returned; set_min_soc(self._perc_target)
StopReturns(i) ==
    /\ tasks[i].pc = "stop_force_charge"
    /\ cmds' = Append(cmds, Cmd("setMinSoc", perc_target))
    /\ tasks' = [tasks EXCEPT ![i].pc = "set_min_soc",
                              ![i].issued = Append(@, Cmd("setMinSoc", perc_target))]
    /\ done' = NoDone
    /\ UNCHANGED <<config, service, handles, battery, soc, now, day, queue,
                   events, outstanding, reports, idle>>

\* line 122: stop_force_charge() raised
StopRaises(i) ==
    /\ tasks[i].pc = "stop_force_charge"
    /\ tasks' = RemoveAt(tasks, i)
    /\ events' = Logged(FALSE)
    /\ done' = Ended(tasks[i], "raised")
    /\ UNCHANGED <<config, service, handles, battery, soc, now, day, queue,
                   cmds, outstanding, reports, idle>>

\* lines 128-129: set_boost(False); set_full(False)
ResetOverrides(b) == [b EXCEPT !.boost = FALSE, !.full = FALSE]

\* lines 125-129: set_min_soc() returned
HoldReturns(i) ==
    /\ tasks[i].action = "_stop_and_hold_charge"
    /\ tasks[i].pc = "set_min_soc"
    /\ battery' = ResetOverrides(battery)
    /\ tasks' = RemoveAt(tasks, i)
    /\ done' = Ended(tasks[i], "returned")
    /\ UNCHANGED <<config, service, handles, soc, now, day, queue, cmds,
                   events, outstanding, reports, idle>>

\* line 125: set_min_soc() raised
HoldRaises(i) ==
    /\ tasks[i].action = "_stop_and_hold_charge"
    /\ tasks[i].pc = "set_min_soc"
    /\ tasks' = RemoveAt(tasks, i)
    /\ events' = Logged(FALSE)
    /\ done' = Ended(tasks[i], "raised")
    /\ UNCHANGED <<config, service, handles, battery, soc, now, day, queue,
                   cmds, outstanding, reports, idle>>

\* ------------------------------------------------------------ _stop_hold
\* the loop of lines 134-135 stopping one listener short
CancelAllButLast(hs, ids) ==
    [i \in DOMAIN hs |->
       IF \E k \in 1..(Len(ids) - 1) : ids[k] = i THEN Cancel(hs[i]) ELSE hs[i]]

\* lines 134-135 left out
CancelNone(hs, ids) == hs

RECURSIVE CancelAll(_, _)
\* lines 134-135: for listener in self._cancel_listeners: listener()
CancelAll(hs, ids) ==
    IF ids = <<>> THEN hs
    ELSE CancelAll([hs EXCEPT ![Head(ids)] = Cancel(@)], Tail(ids))

\* lines 134-135: self._cancel_listeners once the loop is over
AfterCancel(ids) == ids

\* line 139: self._original_soc * 100
ReleaseLevel == Perc(original_soc * SocApiScale)

\* lines 131-139: up to await self._fox.set_min_soc(...)
BeginStopHold ==
    /\ queue # <<>>
    /\ Head(queue) = "_stop_hold"
    /\ queue' = Tail(queue)
    /\ handles' = CancelAll(handles, cancel_listeners)
    /\ cancel_listeners' = AfterCancel(cancel_listeners)
    /\ cmds' = Append(cmds, Cmd("setMinSoc", ReleaseLevel))
    /\ tasks' = Append(tasks, Task("_stop_hold", "set_min_soc", charge_active,
                                   <<Cmd("setMinSoc", ReleaseLevel)>>))
    /\ events' = Append(events, <<"_stop_hold", 0>>)
    /\ done' = NoDone
    /\ UNCHANGED <<config, unload_listeners, charge_active, perc_target,
                   battery, soc, now, day, outstanding, reports, idle>>

\* line 139: set_min_soc() returned (TRUE) or raised (FALSE)
ReleaseEnds(i, ok) ==
    /\ tasks[i].action = "_stop_hold"
    /\ tasks[i].pc = "set_min_soc"
    /\ tasks' = RemoveAt(tasks, i)
    /\ events' = Logged(ok)
    /\ done' = Ended(tasks[i], IF ok THEN "returned" ELSE "raised")
    /\ idle' = (ok \/ idle)
    /\ UNCHANGED <<config, service, handles, battery, soc, now, day, queue,
                   cmds, outstanding, reports>>

\* ---------------------------------------------------------------- unload
\* Teardown has run: the service is shut down.
Unloaded == events # <<>> /\ events[Len(events)][1] = "unload"

\* UnloadController.unload(): every handle in self._unload_listeners is
\* cancelled.
Unload ==
    /\ ~Unloaded
    /\ handles' = CancelAll(handles, unload_listeners)
    /\ events' = Append(events, <<"unload", 0>>)
    /\ done' = [action |-> "unload", outcome |-> "returned",
                entry_active |-> charge_active, issued |-> <<>>]
    /\ UNCHANGED <<config, service, battery, soc, now, day, queue, tasks,
                   cmds, outstanding, reports, idle>>

\* -------------------------------------------------------- specification
\* No callback is scheduled or suspended.
Quiescent == queue = <<>> /\ tasks = <<>>

\* Callbacks run one at a time, each to its end, before the next event.
Next ==
    \/ Quiescent /\ ~Unloaded /\ Tick
    \/ Quiescent /\ ~Unloaded /\ \E v \in SocValues : SocReport(v)
    \/ Quiescent /\ Unload
    \/ tasks = <<>> /\ BeginSetTargetSoc
    \/ tasks = <<>> /\ BeginStartForceCharge
    \/ tasks = <<>> /\ BeginStopAndHold
    \/ tasks = <<>> /\ BeginStopHold
    \/ \E i \in DOMAIN tasks : RefreshReturns(i)
    \/ \E i \in DOMAIN tasks : RefreshRaises(i)
    \/ \E i \in DOMAIN tasks : \E ok \in BOOLEAN : StartEnds(i, ok)
    \/ \E i \in DOMAIN tasks : StopReturns(i)
    \/ \E i \in DOMAIN tasks : StopRaises(i)
    \/ \E i \in DOMAIN tasks : HoldReturns(i)
    \/ \E i \in DOMAIN tasks : HoldRaises(i)
    \/ \E i \in DOMAIN tasks : \E ok \in BOOLEAN : ReleaseEnds(i, ok)

Spec == Init /\ [][Next]_vars

\* Callbacks interleave at their awaits: within one day the clock and the
\* sensor go on while coroutines are suspended, and a scheduled callback
\* starts while others are suspended.  Every awaited call returns (calls
\* that raise are explored by Next).
NextAsync ==
    \/ Tick /\ day' = day
    \/ \E v \in SocValues : SocReport(v)
    \/ Len(tasks) < MaxTasks /\ BeginSetTargetSoc
    \/ Len(tasks) < MaxTasks /\ BeginStartForceCharge
    \/ Len(tasks) < MaxTasks /\ BeginStopAndHold
    \/ Len(tasks) < MaxTasks /\ BeginStopHold
    \/ \E i \in DOMAIN tasks : RefreshReturns(i)
    \/ \E i \in DOMAIN tasks : StartEnds(i, TRUE)
    \/ \E i \in DOMAIN tasks : StopReturns(i)
    \/ \E i \in DOMAIN tasks : HoldReturns(i)
    \/ \E i \in DOMAIN tasks : ReleaseEnds(i, TRUE)

\* One configuration with a working pre-window trigger: the interleavings
\* are those of the callbacks, whatever the eco window.
InitAsync ==
    /\ Init
    /\ eco_start_time = T(2, 5)
    /\ soc = 79
    /\ battery = [needed |-> 10, remaining |-> 4, perc |-> 800,
                  boost |-> FALSE, full |-> FALSE]

SpecAsync == InitAsync /\ [][NextAsync]_vars

\* ======================================================================
\* Claims
\* ======================================================================
\* the listeners registered by _set_target_soc (every handle after the two
\* that __init__ registers)
CycleHandles == 3..Len(handles)

Issued(op, arg) == \E k \in DOMAIN cmds : cmds[k] = Cmd(op, arg)

Returned(action) == done.action = action /\ done.outcome = "returned"

\* C1: immediately after construction exactly two lifetime triggers are
\* registered (pre-window -> _set_target_soc, eco end -> _stop_hold), the
\* cycle-listener list is empty, charge_active is false and no charger
\* command has been issued.
C1_Construction ==
    events = <<>> =>
      /\ Len(handles) = 2
      /\ handles[1].kind = "time" /\ handles[1].action = "_set_target_soc"
      /\ handles[2].kind = "time" /\ handles[2].action = "_stop_hold"
      /\ handles[1].live /\ handles[2].live
      /\ unload_listeners = <<1, 2>>
      /\ cancel_listeners = <<>>
      /\ charge_active = FALSE
      /\ cmds = <<>>
      /\ outstanding = 0
      /\ queue = <<>> /\ tasks = <<>>

C1_Witness ==
    /\ events = <<>>
    /\ Len(handles) = 2
    /\ eco_start_time = T(23, 59)

\* C2 (as claimed): between _stop_hold returning and the next
\* _set_target_soc returning, self._cancel_listeners is empty.
C2_IdleListEmpty == idle => cancel_listeners = <<>>

\* C3 (as claimed): every cycle listener's cancel function is invoked
\* exactly once over the whole run, at the _stop_hold that ends its cycle.
C3_CancelledExactlyOnce ==
    \A i \in CycleHandles :
      /\ handles[i].cancels <= 1
      /\ idle => handles[i].cancels = 1

\* C4 (as claimed): at most one force charge is outstanding, and
\* charge_active holds exactly when a start has no matching stop.
C4_OneOutstanding ==
    /\ outstanding \in {0, 1}
    /\ charge_active <=> outstanding = 1

\* C5 (as claimed): the pre-window trigger is registered for the time of
\* day exactly 5 minutes before eco_start_time.
C5_PreWindowFiveBefore ==
    /\ handles[1].hour = PreWindow \div 60
    /\ handles[1].minute = PreWindow % 60

\* C6: _set_target_soc registers the start trigger (at eco_start_time) iff
\* capacity needed > capacity remaining, registers exactly one SoC watcher
\* either way, and appends every listener it registers to
\* self._cancel_listeners.
C6_ArmRegisters ==
    [][ Returned("_set_target_soc")' =>
          LET n == Len(handles)
              new == SubSeq(handles', n + 1, Len(handles'))
              starts == { k \in DOMAIN new :
                            /\ new[k].kind = "time"
                            /\ new[k].action = "_start_force_charge"
                            /\ new[k].hour = eco_start_time.hour
                            /\ new[k].minute = eco_start_time.minute
                            /\ new[k].live }
              watchers == { k \in DOMAIN new :
                              /\ new[k].kind = "state"
                              /\ new[k].action = "_stop_and_hold_charge"
                              /\ new[k].live }
          IN /\ SubSeq(handles', 1, n) = handles
             /\ Cardinality(starts) =
                  (IF battery'.needed > battery'.remaining THEN 1 ELSE 0)
             /\ Cardinality(watchers) = 1
             /\ Len(new) = Cardinality(starts) + 1
             /\ cancel_listeners' =
                  cancel_listeners \o [k \in 1..Len(new) |-> n + k]
      ]_vars

C6_Witness ==
    /\ Returned("_set_target_soc")
    /\ battery.needed = battery.remaining
    /\ handles[Len(handles)].kind = "state"
    /\ handles[Len(handles) - 1].action # "_start_force_charge"
    /\ cancel_listeners = <<Len(handles)>>

\* C7: a _stop_and_hold_charge that returns has issued
\* set_min_soc(self._perc_target) exactly once, has issued
\* stop_force_charge iff charge_active was true on entry, leaves
\* charge_active false and has cleared boost and full.
C7_StopAndHold ==
    Returned("_stop_and_hold_charge") =>
      /\ done.issued =
           (IF done.entry_active THEN <<Cmd("stopForceCharge", 0)>> ELSE <<>>)
           \o <<Cmd("setMinSoc", perc_target)>>
      /\ charge_active = FALSE
      /\ battery.boost = FALSE
      /\ battery.full = FALSE

C7_Witness ==
    /\ Returned("_stop_and_hold_charge")
    /\ done.entry_active
    /\ Len(done.issued) = 2
    /\ outstanding = 0

\* C8: a _stop_hold that returns has issued set_min_soc(original_soc * 100)
\* and leaves every cycle listener registered so far cancelled; a _stop_hold
\* that starts with no _set_target_soc having returned since the last
\* _stop_hold returned leaves the listener lists and every listener's
\* liveness as they were.
C8_ReleaseHold ==
    [][ /\ Returned("_stop_hold")' =>
             /\ done'.issued =
                  <<Cmd("setMinSoc", Perc(original_soc * SocApiScale))>>
             /\ \A i \in 3..Len(handles') : ~handles'[i].live
        /\ (idle /\ events' = Append(events, <<"_stop_hold", 0>>)) =>
             /\ cancel_listeners' = cancel_listeners
             /\ unload_listeners' = unload_listeners
             /\ Len(handles') = Len(handles)
             /\ \A i \in DOMAIN handles : handles'[i].live = handles[i].live
             /\ Len(tasks') = 1
      ]_vars

C8_Witness ==
    /\ Returned("_stop_hold")
    /\ cancel_listeners # <<>>
    /\ \A k \in DOMAIN cancel_listeners :
         /\ handles[cancel_listeners[k]].cancels = 2
         /\ ~handles[cancel_listeners[k]].live

\* the clock and sensor events since the pre-window instant
EnvEvents == SelectSeq(events, LAMBDA e : e[1] \in {"clock", "soc"})

\* C9 (as claimed): with eco start 02:00, eco end 05:00, original SoC 20,
\* capacity needed 10 > remaining 4 and target 80, a day on which the clock
\* passes 01:55 and 02:00, the sensor then reports 80, the clock reaches
\* 05:00 and no collaborator call raises runs _set_target_soc, _start_force_charge, _stop_and_hold_charge
\* and _stop_hold in that order and issues exactly startForceCharge,
\* stopForceCharge, setMinSoc(80), setMinSoc(2000).
C9_EndToEnd ==
    ( /\ eco_start_time = T(2, 0)
      /\ eco_end_time = T(5, 0)
      /\ original_soc = 20
      /\ battery.needed = 10 /\ battery.remaining = 4 /\ battery.perc = Perc(80)
      /\ EnvEvents = << <<"clock", 115>>, <<"clock", 120>>, <<"soc", 80>>,
                        <<"clock", 300>> >>
      /\ \A k \in DOMAIN events : events[k][1] # "raised"
      /\ Returned("_stop_hold") )
    =>
    ( /\ events = << <<"clock", 115>>, <<"_set_target_soc", 0>>,
                     <<"clock", 120>>, <<"_start_force_charge", 0>>,
                     <<"soc", 80>>, <<"_stop_and_hold_charge", 0>>,
                     <<"clock", 300>>, <<"_stop_hold", 0>> >>
      /\ cmds = << Cmd("startForceCharge", 0), Cmd("stopForceCharge", 0),
                   Cmd("setMinSoc", Perc(80)), Cmd("setMinSoc", Perc(2000)) >>
      /\ charge_active = FALSE
      /\ \A i \in CycleHandles : ~handles[i].live )

\* the values watched by the listeners that were live in the cycle the last
\* _stop_hold ended (it cancelled them for the first time)
Watched ==
    { handles[i].to_state :
        i \in { j \in CycleHandles :
                  handles[j].kind = "state" /\ handles[j].cancels <= 1 } }

\* C10: when _stop_hold returns at the end of a cycle in which the sensor
\* never reported a watched value, _stop_and_hold_charge has not run in the
\* cycle, neither stop_force_charge nor set_min_soc(self._perc_target) has
\* been issued in it, every cycle listener is cancelled and the last command
\* is set_min_soc(original_soc * 100).
C10_Degenerate ==
    ( /\ Returned("_stop_hold")
      /\ \A k \in DOMAIN events :
           events[k][1] = "soc" => events[k][2] \notin Watched )
    =>
    ( /\ \A k \in DOMAIN events : events[k][1] # "_stop_and_hold_charge"
      /\ ~Issued("stopForceCharge", 0)
      /\ ~Issued("setMinSoc", perc_target)
      /\ \A i \in CycleHandles : ~handles[i].live /\ handles[i].cancels >= 1
      /\ cmds # <<>>
      /\ cmds[Len(cmds)] = Cmd("setMinSoc", Perc(original_soc * SocApiScale)) )

C10_Witness ==
    /\ Returned("_stop_hold")
    /\ Watched = {80}
    /\ \E k \in DOMAIN events : events[k] = <<"soc", 79>>
    /\ \A k \in DOMAIN events : events[k] # <<"soc", 80>>
    /\ cmds = << Cmd("startForceCharge", 0),
                 Cmd("setMinSoc", Perc(original_soc * SocApiScale)) >>
    /\ charge_active

\* C11: Teardown in a quiescent state returns and leaves no listener the
\* service registered live, lifetime or cycle, whatever the state of the
\* cycle.
C11_Teardown ==
    Returned("unload") =>
      /\ \A i \in DOMAIN handles : ~handles[i].live
      /\ tasks = <<>> /\ queue = <<>>

C11_Witness ==
    /\ Returned("unload")
    /\ charge_active
    /\ ~idle
    /\ day = 1
    /\ \E i \in CycleHandles : handles[i].cancels = 1

\* C12 (as claimed): when _set_target_soc returns, charge_active is false
\* whatever the preceding cycle did, and self._perc_target is the value of
\* charge_to_perc() read in this invocation.
C12_CycleStateReset ==
    Returned("_set_target_soc") =>
      /\ charge_active = FALSE
      /\ perc_target = battery.perc

LiveStarts ==
    { i \in CycleHandles :
        handles[i].action = "_start_force_charge" /\ handles[i].live }

StartsIssued ==
    Cardinality({ k \in DOMAIN cmds : cmds[k].op = "startForceCharge" })

\* C13: with callbacks run one at a time, at most one start-charge trigger
\* is live, start_force_charge is issued at most once per cycle, and in a
\* cycle whose _set_target_soc found capacity needed <= remaining no start
\* trigger is live and start_force_charge is not issued.
C13_StartOncePerCycle ==
    /\ Cardinality(LiveStarts) <= 1
    /\ StartsIssued <= 1
    /\ (~idle /\ battery.needed <= battery.remaining) =>
         (LiveStarts = {} /\ StartsIssued = 0)

C13_Witness ==
    /\ day = 1
    /\ ~idle
    /\ StartsIssued = 1
    /\ Cardinality(LiveStarts) = 1
    /\ \E i \in CycleHandles :
         handles[i].action = "_start_force_charge" /\ handles[i].cancels = 1

\* C14 (as claimed): the value the SoC watcher registered by
\* _set_target_soc waits for is self._perc_target rounded to the nearest
\* integer.
C14_WatchRounded ==
    Returned("_set_target_soc") =>
      handles[Len(handles)].to_state =
        (perc_target + PercScale \div 2) \div PercScale

\* C15 (as claimed): a _stop_and_hold_charge entered with charge_active
\* true whose stop_force_charge raises ends with the exception, has not
\* issued set_min_soc, and leaves charge_active true.
C15_StopFailure ==
    ( /\ done.action = "_stop_and_hold_charge"
      /\ done.outcome = "raised"
      /\ done.entry_active
      /\ Len(done.issued) = 1 )
    =>
    ( /\ done.issued = <<Cmd("stopForceCharge", 0)>>
      /\ events[Len(events)] = <<"raised", 0>>
      /\ charge_active = TRUE )

\* C19 (as claimed): until Teardown both lifetime triggers stay live, and
\* each day the pre-window instant runs _set_target_soc and the eco end
\* instant runs _stop_hold.
C19_LifetimeRepeats ==
    ~Unloaded =>
      /\ handles[1].live /\ handles[2].live
      /\ ( /\ Quiescent
           /\ events # <<>>
           /\ events[1] = <<"clock", PreWindow>> )
         => \E k \in DOMAIN events : events[k][1] = "_set_target_soc"
      /\ ( /\ Quiescent
           /\ \E k \in DOMAIN events :
                events[k] = <<"clock", ToMinutes(eco_end_time)>> )
         => \E k \in DOMAIN events : events[k][1] = "_stop_hold"

\* C20 (as claimed): after every _stop_hold self._unload_listeners holds
\* only the two lifetime handles and self._cancel_listeners holds none.
C20_NoAccumulation ==
    Returned("_stop_hold") =>
      /\ unload_listeners = <<1, 2>>
      /\ cancel_listeners = <<>>

\* C16: under every interleaving within a day, stop_force_charge is never
\* issued more often than start_force_charge, also when a second
\* _stop_and_hold_charge starts while the first is suspended, and every
\* _stop_and_hold_charge that returns has issued
\* set_min_soc(self._perc_target) exactly once.
C16_ReentryGuarded ==
    /\ outstanding >= 0
    /\ Returned("_stop_and_hold_charge") =>
         /\ Cardinality({ k \in DOMAIN done.issued :
                            done.issued[k].op = "setMinSoc" }) = 1
         /\ done.issued[Len(done.issued)] = Cmd("setMinSoc", perc_target)
         /\ Cardinality({ k \in DOMAIN done.issued :
                            done.issued[k].op = "stopForceCharge" })
              = (IF done.entry_active THEN 1 ELSE 0)

C16_Witness ==
    \E i, j \in DOMAIN tasks :
      /\ i # j
      /\ tasks[i].action = "_stop_and_hold_charge"
      /\ tasks[i].pc = "stop_force_charge"
      /\ tasks[j].action = "_stop_and_hold_charge"
      /\ tasks[j].pc = "set_min_soc"
      /\ ~tasks[j].entry_active
      /\ outstanding = 0

\* a _stop_hold of this cycle has begun and none is scheduled or suspended
AfterRelease ==
    /\ \E k \in DOMAIN events : events[k][1] = "_stop_hold"
    /\ \A k \in DOMAIN events : events[k][1] # "raised"
    /\ \A i \in DOMAIN tasks : tasks[i].action # "_stop_hold"
    /\ \A k \in DOMAIN queue : queue[k] # "_stop_hold"

\* C17 (as claimed): under every interleaving, no cycle listener is live
\* once _stop_hold has returned and until the next pre-window instant.
C17_NoLiveAfterRelease ==
    AfterRelease => \A i \in CycleHandles : ~handles[i].live

\* the set_min_soc commands of the cycle, oldest first
MinSocCmds == SelectSeq(cmds, LAMBDA c : c.op = "setMinSoc")

\* C18 (as claimed): under every interleaving, once _stop_hold has returned
\* and every cycle listener is cancelled, the most recent set_min_soc issued
\* is set_min_soc(original_soc * 100) until the next pre-window instant.
C18_HoldRestored ==
    (AfterRelease /\ \A i \in CycleHandles : ~handles[i].live) =>
      /\ MinSocCmds # <<>>
      /\ MinSocCmds[Len(MinSocCmds)]
           = Cmd("setMinSoc", Perc(original_soc * SocApiScale))

====
